---- MODULE Spec2Model ----
(***************************************************************************)
(* Model of the ISO 26262 item-definition review plugin:                   *)
(*   - parse_markdown_table (hook_export.py, helpers.py, tool_review.py:   *)
(*     three textually identical copies),                                  *)
(*   - the export hook before_cat_sends_message,                           *)
(*   - create_review_package and the batch review tool.                    *)
(* Text is a sequence of one-character strings; a record (a Python dict)   *)
(* is a function from column names to cell values.                         *)
(***************************************************************************)
EXTENDS Naturals, Integers, Sequences, FiniteSets, TLC

----------------------------------------------------------------------------
(* Characters and the Python string primitives the parser uses.            *)

PIPE == "|"
NL == "\n"
SP == " "

\* str.isspace for the characters of the model (regex class ws, str.strip()).
IsSpace(c) == c \in {" ", "\n", "\t"}

\* the regex digit class.
IsDigit(c) == c \in {"0", "1", "2", "3", "4", "5", "6", "7", "8", "9"}

\* the regex class [ws digit].
IsSpaceOrDigit(c) == IsSpace(c) \/ IsDigit(c)

\* the regex class [-:].
IsDashColon(c) == c \in {"-", ":"}

\* the regex class [-|].
IsDashPipe(c) == c \in {"-", "|"}

\* s[a..b] (1-based, inclusive); empty when a > b.
Slice(s, a, b) == IF a > b THEN << >> ELSE SubSeq(s, a, b)

RECURSIVE LStripFrom(_, _)
LStripFrom(s, i) ==
  IF i <= Len(s) /\ IsSpace(s[i]) THEN LStripFrom(s, i + 1) ELSE i

RECURSIVE RStripTo(_, _)
RStripTo(s, j) ==
  IF j >= 1 /\ IsSpace(s[j]) THEN RStripTo(s, j - 1) ELSE j

\* str.strip(): leading and trailing whitespace removed.
Strip(s) == Slice(s, LStripFrom(s, 1), RStripTo(s, Len(s)))

\* the first place of c at or after i, Len(s) + 1 if there is none.
RECURSIVE Find(_, _, _)
Find(s, c, i) ==
  IF i > Len(s) \/ s[i] = c THEN i ELSE Find(s, c, i + 1)

\* the last place of c at or before j, 0 if there is none.
RECURSIVE RFind(_, _, _)
RFind(s, c, j) ==
  IF j < 1 \/ s[j] = c THEN j ELSE RFind(s, c, j - 1)

\* str.split(sep) for a one-character sep: always at least one piece.  The
\* piece that starts at start ends before the next sep, at i, or with s.
RECURSIVE SplitFrom(_, _, _), SplitAt(_, _, _, _)
SplitFrom(s, sep, start) == SplitAt(s, sep, start, Find(s, sep, start))

SplitAt(s, sep, start, i) ==
  IF i > Len(s) THEN << Slice(s, start, Len(s)) >>
  ELSE << Slice(s, start, i - 1) >> \o SplitFrom(s, sep, i + 1)

Split(s, sep) == SplitFrom(s, sep, 1)

\* the Python slice xs[1:-1]: first and last element dropped.
Inner(xs) == Slice(xs, 2, Len(xs) - 1)

\* [c.strip() for c in line.split('|')[1:-1]]
SplitCells(line) ==
  LET parts == Inner(Split(line, PIPE))
  IN [i \in 1..Len(parts) |-> Strip(parts[i])]

\* any(cells): some cell is a non-empty string.
AnyCell(cells) == \E i \in 1..Len(cells) : cells[i] # << >>

\* a mutated any(): every row counts as non-empty.
AnyCellAlways(cells) == TRUE

\* the test "if not any(cells): continue" of the row loop.
KeepRow(cells) == AnyCell(cells)

Min(a, b) == IF a < b THEN a ELSE b

\* dict(zip(headers, cells)): zip stops at the shorter sequence; a repeated
\* key keeps the value of its last occurrence.
DictZip(headers, cells) ==
  LET n == Min(Len(headers), Len(cells))
      keys == {headers[i] : i \in 1..n}
      Last(k) == CHOOSE i \in 1..n :
                   /\ headers[i] = k
                   /\ \A j \in 1..n : headers[j] = k => j <= i
  IN [k \in keys |-> cells[Last(k)]]

\* a mutated zip: a short row is padded with empty strings.
DictZipPadded(headers, cells) ==
  LET keys == {headers[i] : i \in 1..Len(headers)}
      Last(k) == CHOOSE i \in 1..Len(headers) :
                   /\ headers[i] = k
                   /\ \A j \in 1..Len(headers) : headers[j] = k => j <= i
  IN [k \in keys |-> IF Last(k) <= Len(cells) THEN cells[Last(k)] ELSE << >>]

\* row = dict(zip(headers, cells))
MakeRow(headers, cells) == DictZip(headers, cells)

----------------------------------------------------------------------------
\* The regular expression of parse_markdown_table, compiled with re.DOTALL:
\*   PIPE any* PIPE ws* PIPE [-:]* [-|] ws* ( PIPE any* PIPE [ws digit]* )+
\* matched as Python's backtracking engine matches it: every quantifier is
\* greedy and gives characters back one at a time until the rest of the
\* pattern matches.  A position is the index of the next character to
\* consume; a match result is the position after the match, 0 for failure.

\* ws* : end of the longest whitespace run starting at i.
RECURSIVE RunSpace(_, _)
RunSpace(s, i) ==
  IF i <= Len(s) /\ IsSpace(s[i]) THEN RunSpace(s, i + 1) ELSE i

\* [ws digit]* : end of the longest run of whitespace and digits starting at i.
RECURSIVE RunSpaceDigit(_, _)
RunSpaceDigit(s, i) ==
  IF i <= Len(s) /\ IsSpaceOrDigit(s[i]) THEN RunSpaceDigit(s, i + 1) ELSE i

\* [-:]* : end of the longest run of dashes and colons starting at i.
RECURSIVE RunDashColon(_, _)
RunDashColon(s, i) ==
  IF i <= Len(s) /\ IsDashColon(s[i]) THEN RunDashColon(s, i + 1) ELSE i

\* backtracking: the result r of the alternative tried first if it matched,
\* otherwise the result of the next alternative.
OrElse(r, next) == IF r # 0 THEN r ELSE next

\* the repeated group ( PIPE any* PIPE [ws digit]* )+ at i.  Nothing follows
\* the group in the pattern, so after one repetition the engine first tries
\* another one and otherwise stops where it is.  any* runs to j and gives
\* back to the last pipe before it (GroupDot); the repetition is closed by
\* the pipe at j (GroupClose) and followed by another one or not (GroupNext).
RECURSIVE GroupPlus(_, _), GroupDot(_, _, _), GroupClose(_, _, _), GroupNext(_, _)
GroupPlus(s, i) ==
  IF i <= Len(s) /\ s[i] = PIPE THEN GroupDot(s, i, Len(s)) ELSE 0

GroupDot(s, i, j) == GroupClose(s, i, RFind(s, PIPE, j))

GroupClose(s, i, j) ==
  IF j <= i THEN 0 ELSE GroupNext(s, RunSpaceDigit(s, j + 1))

GroupNext(s, k) == OrElse(GroupPlus(s, k), k)

\* ws* then the group, at positions lo..hi: the whitespace run gives back from hi.
RECURSIVE SpaceThenGroup(_, _, _)
SpaceThenGroup(s, lo, hi) ==
  IF hi < lo THEN 0
  ELSE OrElse(GroupPlus(s, hi), SpaceThenGroup(s, lo, hi - 1))

\* [-:]* [-|] ws* group : the [-:]* run covers lo..hi-1 and gives back.
RECURSIVE DashesThenRest(_, _, _)
DashesThenRest(s, lo, hi) ==
  IF hi < lo THEN 0
  ELSE OrElse(IF hi <= Len(s) /\ IsDashPipe(s[hi])
              THEN SpaceThenGroup(s, hi + 1, RunSpace(s, hi + 1))
              ELSE 0,
              DashesThenRest(s, lo, hi - 1))

\* ws* PIPE [-:]* [-|] ... : the ws* run covers lo..hi-1 and gives back.
RECURSIVE SpaceThenSep(_, _, _)
SpaceThenSep(s, lo, hi) ==
  IF hi < lo THEN 0
  ELSE OrElse(IF hi <= Len(s) /\ s[hi] = PIPE
              THEN DashesThenRest(s, hi + 1, RunDashColon(s, hi + 1))
              ELSE 0,
              SpaceThenSep(s, lo, hi - 1))

\* PIPE ws* PIPE [-:]* [-|] ws* group, with the first PIPE at q.
SepAt(s, q) ==
  IF q <= Len(s) /\ s[q] = PIPE
  THEN SpaceThenSep(s, q + 1, RunSpace(s, q + 1))
  ELSE 0

\* PIPE any* at p followed by the rest: any* (DOTALL: any character, newlines
\* included) first runs to the end of the text and gives back from q; the
\* rest can only match at a pipe (HeadDot), and when it does not match at the
\* pipe at q, any* gives back further (HeadAt).
RECURSIVE HeadDot(_, _, _), HeadAt(_, _, _)
HeadDot(s, p, q) == HeadAt(s, p, RFind(s, PIPE, q))

HeadAt(s, p, q) ==
  IF q <= p THEN 0 ELSE OrElse(SepAt(s, q), HeadDot(s, p, q - 1))

\* the whole pattern anchored at p.
MatchAt(s, p) ==
  IF p <= Len(s) /\ s[p] = PIPE THEN HeadDot(s, p, Len(s)) ELSE 0

\* table_pattern.findall(text): leftmost matches, not overlapping.  A match
\* can only start at a pipe (FindAllFrom); the pattern is tried at the pipe
\* at p (FindAllAt); a match ending before e is collected and the search
\* goes on at e, and without a match it goes on at p + 1 (Matched).
RECURSIVE FindAllFrom(_, _), FindAllAt(_, _), Matched(_, _, _)
FindAllFrom(s, p) == FindAllAt(s, Find(s, PIPE, p))

FindAllAt(s, p) ==
  IF p > Len(s) THEN << >> ELSE Matched(s, p, MatchAt(s, p))

Matched(s, p, e) ==
  IF e # 0
  THEN << Slice(s, p, e - 1) >> \o FindAllFrom(s, e)
  ELSE FindAllFrom(s, p + 1)

FindAll(s) == FindAllFrom(s, 1)

----------------------------------------------------------------------------
(* parse_markdown_table                                                    *)

\* lines = [line.strip() for line in table.strip().split('\n')]
TableLines(table) ==
  LET raw == Split(Strip(table), NL)
  IN [i \in 1..Len(raw) |-> Strip(raw[i])]

\* the row loop "for line in lines[2:]".
RECURSIVE RowsFrom(_, _, _)
RowsFrom(lines, headers, i) ==
  IF i > Len(lines) THEN << >>
  ELSE LET cells == SplitCells(lines[i])
       IN (IF KeepRow(cells) THEN << MakeRow(headers, cells) >> ELSE << >>)
          \o RowsFrom(lines, headers, i + 1)

\* the body of "for table in tables" for one matched block.
ParseTable(table) ==
  LET lines == TableLines(table)
  IN IF Len(lines) < 2 THEN << >>
     ELSE RowsFrom(lines, SplitCells(lines[1]), 3)

RECURSIVE ParseTables(_, _)
ParseTables(tables, i) ==
  IF i > Len(tables) THEN << >>
  ELSE ParseTable(tables[i]) \o ParseTables(tables, i + 1)

parse_markdown_table(text) == ParseTables(FindAll(text), 1)

----------------------------------------------------------------------------
(* Input texts.  A document is a sequence of blocks: a prose block holds   *)
(* lines of prose, a table block a header row, zero or one separator line  *)
(* and data rows.  Render turns a document into the text the parser reads. *)

A == << "A" >>
B == << "B" >>
X == << "x" >>
Y == << "y" >>
Empty == << >>

MaxRows == 2
MaxTables == 2
MaxDash == 3

RECURSIVE Join(_, _)
Join(parts, sep) ==
  IF parts = << >> THEN << >>
  ELSE IF Len(parts) = 1 THEN parts[1]
  ELSE parts[1] \o sep \o Join(Tail(parts), sep)

RECURSIVE Flatten(_)
Flatten(seqs) ==
  IF seqs = << >> THEN << >> ELSE seqs[1] \o Flatten(Tail(seqs))

\* one table row as a markdown line: |c1|c2| or, padded, | c1 | c2 |.
RenderRow(cells, pad) ==
  LET P(c) == IF pad THEN << SP >> \o c \o << SP >> ELSE c
  IN << PIPE >> \o Flatten([i \in 1..Len(cells) |-> P(cells[i]) \o << PIPE >>])

RECURSIVE Dashes(_)
Dashes(k) == IF k = 0 THEN << >> ELSE << "-" >> \o Dashes(k - 1)

\* the spellings of one cell of a separator row: dashes, with an optional
\* alignment colon on either side, or padded with spaces.
SepCellsEndingInDash ==
  {Dashes(k) : k \in 1..MaxDash} \cup {<< ":" >> \o Dashes(k) : k \in 1..MaxDash}

SepCellsOther ==
  {Dashes(MaxDash) \o << ":" >>,
   << ":" >> \o Dashes(MaxDash) \o << ":" >>,
   << SP >> \o Dashes(MaxDash) \o << SP >>}

SepCells == SepCellsEndingInDash \cup SepCellsOther

\* a separator row of n columns, every cell spelled c.
SepLine(c, n) == RenderRow([i \in 1..n |-> c], FALSE)

\* lines that stand where a separator would but hold no dash and no colon.
PipeOnlyLines == {<< PIPE, PIPE >>, << PIPE, PIPE, PIPE >>, << PIPE, SP, PIPE, SP, PIPE >>}

PlainProse == << "a", "b" >>
OnePipeProse == << "a", SP, PIPE, SP, "b" >>
TwoPipeProse == << "a", PIPE, "b", PIPE, "c" >>

ProseBlock(lines) ==
  [kind |-> "prose", lines |-> lines, header |-> << >>, sep |-> << >>,
   rows |-> << >>, pad |-> FALSE]

TableBlock(header, sep, rows, pad) ==
  [kind |-> "table", lines |-> << >>, header |-> header, sep |-> sep,
   rows |-> rows, pad |-> pad]

BlockLines(b) ==
  IF b.kind = "prose" THEN b.lines
  ELSE << RenderRow(b.header, b.pad) >> \o b.sep
       \o [i \in 1..Len(b.rows) |-> RenderRow(b.rows[i], b.pad)]

Render(d) == Join(Flatten([i \in 1..Len(d) |-> BlockLines(d[i])]), << NL >>)

\* sequences over S of length lo..hi.
SeqsOf(S, lo, hi) == UNION {[1..n -> S] : n \in lo..hi}

\* optional prose before or after a table: nothing, or a paragraph set off
\* by a blank line.
NoPipeBefore == {<< >>, << ProseBlock(<< PlainProse, << >> >>) >>}
NoPipeAfter == {<< >>, << ProseBlock(<< << >>, PlainProse >>) >>}

CompactSep(n) == << SepLine(Dashes(MaxDash), n) >>

\* rows family: one table in the compact spelling, rows of every shape.
HeaderChoices == {<< A >>, << A, B >>, << A, A >>, << A, B, A >>}
RowChoices ==
  {<< X >>, << X, Y >>, << Y, X >>, << X, Y, X >>, << Empty >>,
   << Empty, Empty >>, << Empty, X >>, << X, Empty >>}

RowDocs ==
  {pre \o << TableBlock(h, CompactSep(Len(h)), rows, pad) >> \o post :
     pre \in NoPipeBefore, post \in NoPipeAfter, h \in HeaderChoices,
     rows \in SeqsOf(RowChoices, 0, MaxRows), pad \in BOOLEAN}

\* separator family: header A|B, one data row x|y, every separator spelling,
\* a pipes-only line in its place, or no line at all.
SepChoices ==
  {<< SepLine(c, 2) >> : c \in SepCells} \cup {<< l >> : l \in PipeOnlyLines}
  \cup {<< >>}

SepDocs ==
  {pre \o << TableBlock(<< A, B >>, sep, << << X, Y >> >>, pad) >> \o post :
     pre \in NoPipeBefore, post \in NoPipeAfter, sep \in SepChoices,
     pad \in BOOLEAN}

\* tables of the multi-table and prose families: compact separator, one to
\* MaxRows data rows without empty cells.
FullRows == {<< X, Y >>, << Y, X >>}
SmallTables ==
  {TableBlock(h, CompactSep(2), rows, FALSE) :
     h \in {<< A, B >>, << B, A >>}, rows \in SeqsOf(FullRows, 1, MaxRows)}

Between == ProseBlock(<< << >>, PlainProse, << >> >>)

RECURSIVE Interleave(_)
Interleave(ts) ==
  IF Len(ts) <= 1 THEN ts
  ELSE << ts[1], Between >> \o Interleave(Tail(ts))

MultiDocs == {Interleave(ts) : ts \in SeqsOf(SmallTables, 2, MaxTables)}

\* prose family: one table with prose before and/or after it, the prose
\* with or without pipe characters.
ProseLines == {PlainProse, OnePipeProse, TwoPipeProse}
ProseDocs ==
  {pre \o << t >> \o post :
     t \in {TableBlock(<< A, B >>, CompactSep(2), rows, FALSE) :
              rows \in SeqsOf(FullRows, 1, MaxRows)},
     pre \in {<< >>} \cup {<< ProseBlock(<< l, << >> >>) >> : l \in ProseLines},
     post \in {<< >>} \cup {<< ProseBlock(<< << >>, l >>) >> : l \in ProseLines}}

Docs == RowDocs \cup SepDocs \cup MultiDocs \cup ProseDocs

----------------------------------------------------------------------------
(* Checklist, report assembly and packaging, as the export hook and        *)
(* create_review_package do them.  Text values are character sequences.    *)

ID == << "I", "D" >>
REQUIREMENT == << "R", "e", "q", "u", "i", "r", "e", "m", "e", "n", "t" >>
DESCRIPTION == << "D", "e", "s", "c", "r", "i", "p", "t", "i", "o", "n" >>
CLAUSE == << "C", "l", "a", "u", "s", "e" >>
STATUS == << "S", "t", "a", "t", "u", "s" >>
COMMENT == << "C", "o", "m", "m", "e", "n", "t" >>
PASS == << "P", "a", "s", "s" >>
FAIL == << "F", "a", "i", "l" >>
NA == << "N", "/", "A" >>
NOT_REVIEWED == << "N", "o", "t", " ", "R", "e", "v", "i", "e", "w", "e", "d" >>

\* dict.get(k, default)
Get(d, k, default) == IF k \in DOMAIN d THEN d[k] ELSE default

\* checklist.get("items", [])
ChecklistItems(checklist) == Get(checklist, "items", << >>)

\* a mutated map: the first item with an id is kept.
ChecklistMapFirst(items) ==
  LET At(k) == {i \in 1..Len(items) : items[i]["id"] = k}
  IN [k \in {items[i]["id"] : i \in 1..Len(items)} |->
        items[CHOOSE i \in At(k) : \A j \in At(k) : i <= j]]

\* {item["id"]: item for item in checklist_items}: a later item with the
\* same id replaces an earlier one.
ChecklistMap(items) ==
  LET At(k) == {i \in 1..Len(items) : items[i]["id"] = k}
  IN [k \in {items[i]["id"] : i \in 1..Len(items)} |->
        items[CHOOSE i \in At(k) : \A j \in At(k) : j <= i]]

\* a mutated lookup: an unknown id gets the item of some known id.
LookupAny(map, item_id) ==
  IF item_id \in DOMAIN map \/ DOMAIN map = {} THEN Get(map, item_id, << >>)
  ELSE map[CHOOSE k \in DOMAIN map : TRUE]

\* checklist_map.get(item_id, {})
Lookup(map, item_id) == Get(map, item_id, << >>)

\* the document elements python-docx appends.
Heading(t, level) == [kind |-> "heading", level |-> level, text |-> t, cells |-> << >>]
Paragraph(t) == [kind |-> "paragraph", level |-> 0, text |-> t, cells |-> << >>]
ItemTable(cells) == [kind |-> "table", level |-> 0, text |-> "", cells |-> cells]

TITLE == "ISO 26262 Part 3 - Item Definition Review Report"

\* the categories add_section_explanation has a text for.
ExplainedCategories ==
  {"Identification and Classification", "Functional Description",
   "Safety-Related Attributes", "Dependencies and Interactions",
   "System Boundaries and Context", "Review and Approval"}

\* add_section_explanation(doc, category)
SectionExplanation(category) ==
  IF category \in ExplainedCategories
  THEN << Paragraph("explanation") >>
  ELSE << >>

\* category = checklist_map.get(item_id, {}).get("category", "Uncategorized")
CategoryOf(map, item) == Get(Lookup(map, Get(item, ID, Empty)), "category", "Uncategorized")

\* the 5-row, 2-column table of one item and the spacer paragraph after it.
ItemElements(map, item) ==
  LET ci == Lookup(map, Get(item, ID, Empty))
  IN << ItemTable(<< << REQUIREMENT, Get(ci, "requirement", Empty) >>,
                     << DESCRIPTION, Get(ci, "description", NA) >>,
                     << << "I", "S", "O", " ", "C", "l", "a", "u", "s", "e" >>,
                        Get(ci, "iso_clause", NA) >>,
                     << << "R", "e", "s", "u", "l", "t" >>, Get(item, STATUS, NOT_REVIEWED) >>,
                     << COMMENT, Get(item, COMMENT, Empty) >> >>),
        Paragraph("") >>

\* the hook's item loop from row i on.  latch is the function attribute
\* before_cat_sends_message.last_category: latch.set says the attribute
\* exists (hasattr), latch.value is its value.  The result is the elements
\* appended and the latch afterwards.
RECURSIVE HookItems(_, _, _, _)
HookItems(map, review_data, i, latch) ==
  IF i > Len(review_data) THEN [elements |-> << >>, latch |-> latch]
  ELSE LET category == CategoryOf(map, review_data[i])
           changed == ~latch.set \/ latch.value # category
           rest == HookItems(map, review_data, i + 1,
                             IF changed THEN [set |-> TRUE, value |-> category]
                             ELSE latch)
       IN [elements |->
             (IF changed
              THEN << Heading(category, 2) >> \o SectionExplanation(category)
              ELSE << >>)
             \o ItemElements(map, review_data[i]) \o rest.elements,
           latch |-> rest.latch]

\* the item loop of create_review_package from row i on; current_category
\* is a local of the call: unset says it is still None.
RECURSIVE PackageItems(_, _, _, _, _)
PackageItems(map, review_data, i, unset, current_category) ==
  IF i > Len(review_data) THEN << >>
  ELSE LET category == CategoryOf(map, review_data[i])
       IN (IF unset \/ current_category # category
           THEN << Heading(category, 3) >> ELSE << >>)
          \o ItemElements(map, review_data[i])
          \o PackageItems(map, review_data, i + 1, FALSE, category)

CsvHeader == << ID, REQUIREMENT, DESCRIPTION, CLAUSE, STATUS, COMMENT >>

\* one csv_writer.writerow of the hook: the requirement falls back to the
\* reply's own Requirement cell.
HookCsvRow(map, item) ==
  LET ci == Lookup(map, Get(item, ID, Empty))
  IN << Get(item, ID, Empty),
        Get(ci, "requirement", Get(item, REQUIREMENT, Empty)),
        Get(ci, "description", NA), Get(ci, "iso_clause", NA),
        Get(item, STATUS, Empty), Get(item, COMMENT, Empty) >>

\* one csv_writer.writerow of create_review_package.
PackageCsvRow(map, item) ==
  LET ci == Lookup(map, Get(item, ID, Empty))
  IN << Get(item, ID, Empty), Get(ci, "requirement", Empty),
        Get(ci, "description", NA), Get(ci, "iso_clause", NA),
        Get(item, STATUS, Empty), Get(item, COMMENT, Empty) >>

HookCsv(map, review_data) ==
  << CsvHeader >> \o [i \in 1..Len(review_data) |-> HookCsvRow(map, review_data[i])]

PackageCsv(map, review_data) ==
  << CsvHeader >> \o [i \in 1..Len(review_data) |-> PackageCsvRow(map, review_data[i])]

----------------------------------------------------------------------------
(* Timestamps, file names, the ZIP stream and its base64 form.             *)

\* time.time() * 1000: the clock of the model counts milliseconds.
MsPerSecond == 1000
\* int(time.time() * 1000) % 10000
SuffixModulus == 10000

\* datetime.now().strftime("%Y%m%d_%H%M%S"): one string per second.
Strftime(t) == t \div MsPerSecond

\* the hook's timestamp.
HookTimestamp(t) == << Strftime(t) >>

\* create_review_package's timestamp: the second of the first reading and
\* the last four digits of the milliseconds of the second reading.
PackageTimestamp(t1, t2) == << Strftime(t1), t2 % SuffixModulus >>

\* f"{base}_review_{timestamp}{ext}"
FileName(base, timestamp, ext) == [base |-> base, stamp |-> timestamp, ext |-> ext]

NoName == FileName("", << >>, "")

\* the segments of a ZIP byte stream: one per member, then the end record
\* that counts the members.
Member(name, data) == [kind |-> "file", name |-> name, data |-> data, count |-> 0]
EndRecord(n) == [kind |-> "end", name |-> NoName, data |-> << >>, count |-> n]
PadByte == [kind |-> "pad", name |-> NoName, data |-> << >>, count |-> 0]

\* zipfile.ZipFile(..., "w") with writestr called for each member in turn.
ZipStream(members) == members \o << EndRecord(Len(members)) >>

\* the members a ZIP byte stream holds, as a reader lists them.
MembersOf(stream) == SelectSeq(stream, LAMBDA b : b.kind = "file")

\* BytesIO: the bytes and the read position.
Buffer(data) == [data |-> data, pos |-> Len(data)]
Seek(buf, pos) == [buf EXCEPT !.pos = pos]
ReadAll(buf) == Slice(buf.data, buf.pos + 1, Len(buf.data))

\* a mutated seek that leaves the position where it is.
SeekNowhere(buf, pos) == buf

\* zip_buffer.seek(0)
Rewind(buf, pos) == Seek(buf, pos)

\* base64.b64encode: the bytes in groups of three, the last group padded.
B64Encode(bytes) ==
  LET n == Len(bytes)
      At(i) == IF i <= n THEN bytes[i] ELSE PadByte
  IN [g \in 1..((n + 2) \div 3) |-> << At(3 * g - 2), At(3 * g - 1), At(3 * g) >>]

\* base64.b64decode: the groups put back in a row, the padding dropped.
B64Decode(groups) ==
  SelectSeq(Flatten(groups), LAMBDA b : b.kind # "pad")

\* open(path, "wb") / ZipFile(path, "w"): the file is created or replaced.
WriteFile(dir, name, bytes) ==
  [n \in DOMAIN dir \cup {name} |-> IF n = name THEN bytes ELSE dir[n]]

\* the message the hook puts in place of the reply.
ExportedMessage == << "e", "x", "p", "o", "r", "t", "e", "d" >>

NoFile == [name |-> NoName, content |-> << >>, type |-> "none"]

\* what the batch tool returns: a string, here its kind and the lines
\* "filename -> zip name" it lists; a string has no file attached.
\* detail is the exception message the string holds, "" if it holds none.
ToolReturn(kind, pairs) ==
  [kind |-> kind, pairs |-> pairs, file |-> NoFile, detail |-> ""]

\* f"... {e}": a string that holds the message of the exception e.
ErrorReturn(kind, detail) == [ToolReturn(kind, << >>) EXCEPT !.detail = detail]

\* the exceptions of the model and str(e) of each.
MessageOf(exc) ==
  CASE exc = "FileNotFoundError" -> "Checklist file not found"
    [] exc = "JSONDecodeError" -> "Expecting value"
    [] exc = "KeyError" -> "'id'"
    [] exc = "LlmError" -> "llm failed"
    [] OTHER -> ""

\* load_checklist(plugin_folder) for the state of the checklist file: the
\* exception that leaves it, "none" when it returns the checklist.
LoadChecklistRaises(state) ==
  CASE state = "missing" -> "FileNotFoundError"
    [] state = "corrupt" -> "JSONDecodeError"
    [] OTHER -> "none"

----------------------------------------------------------------------------
(* State.                                                                  *)

VARIABLES
  doc,          \* the document whose rendering is handed to the parser
  text,         \* the argument of parse_markdown_table
  parsed_data,  \* its return value
  ppc,          \* "call" before parse_markdown_table runs, "done" after
  checklist,    \* the content of checklists/item_definition_checklist.json
  checklist_file,   \* that file: "ok", "missing" or "corrupt" (invalid JSON)
  folder,       \* the files of the item_definitions folder
  clock,        \* the system clock, in milliseconds
  exports,      \* the exports directory: file name -> bytes
  writes,       \* how many ZIP files have been written so far
  last_category,    \* the attribute before_cat_sends_message.last_category
  final_output,     \* what the hook returned last
  report,           \* the report assembled last: who built it, from what
  calls,            \* hook invocations and batch runs so far
  bpc,              \* the batch tool: "idle" or "loop"
  files_to_process, \* its list of files
  idx,              \* the index of the file the loop is at
  processed_files,
  zip_files_created,
  batch_processing, \* cat._batch_processing: whether the attribute is set, its value
  loop_errors,      \* the exceptions the loop's handler caught (and printed)
  batch_result,     \* what the batch tool returned last
  escaped,          \* the exception that left the entry point called last
  llm_calls,        \* how many times cat.llm has been called
  review_result,    \* what review_item_definition returned last
  extracted         \* the file extract_file_content read last and its result

parseVars == << doc, text, parsed_data, ppc >>
envVars == << checklist, checklist_file, folder >>
hookVars == << last_category, final_output >>
batchVars == << bpc, files_to_process, idx, processed_files, zip_files_created, loop_errors,
               batch_processing, batch_result >>
toolVars == << escaped, llm_calls, review_result, extracted >>
lifeVars == << envVars, clock, exports, writes, hookVars, report, calls, batchVars,
              toolVars >>
vars == << parseVars, lifeVars >>

MaxCalls == 2
MaxSeconds == 1

\* the clock readings the model follows: those of the first MaxSeconds
\* seconds.
InClockRange(t) == t \div MsPerSecond <= MaxSeconds
MaxItems == 2

NoReport ==
  [by |-> "none", input |-> << >>, review_data |-> << >>, docx |-> << >>,
   csv |-> << >>, zip |-> NoName]

NoExtraction == [file |-> [base |-> "", ext |-> "", body |-> << >>], content |-> << >>]

NoResponse == [kind |-> "none", content |-> << >>]

\* the state of the plugin when it is loaded: nothing exported, the latch
\* attribute not yet created, no tool running.
LifeStart ==
  /\ clock = 0
  /\ exports = << >>
  /\ writes = 0
  /\ last_category = [set |-> FALSE, value |-> ""]
  /\ final_output = [content |-> << >>, file |-> NoFile]
  /\ report = NoReport
  /\ calls = 0
  /\ bpc = "idle"
  /\ files_to_process = << >>
  /\ idx = 0
  /\ processed_files = << >>
  /\ zip_files_created = << >>
  /\ batch_processing = [set |-> FALSE, value |-> FALSE]
  /\ loop_errors = << >>
  /\ batch_result = ToolReturn("none", << >>)
  /\ escaped = "none"
  /\ llm_calls = 0
  /\ review_result = NoResponse
  /\ extracted = NoExtraction

ParseIdle ==
  /\ doc = << >>
  /\ text = << >>
  /\ parsed_data = << >>
  /\ ppc = "idle"

----------------------------------------------------------------------------
(* The parser applied to every document of Docs.                           *)

InitParse ==
  /\ doc \in Docs
  /\ text = Render(doc)
  /\ parsed_data = << >>
  /\ ppc = "call"
  /\ checklist = [items |-> << >>]
  /\ checklist_file = "ok"
  /\ folder = {}
  /\ LifeStart

ParseMarkdownTable ==
  /\ ppc = "call"
  /\ parsed_data' = parse_markdown_table(text)
  /\ ppc' = "done"
  /\ UNCHANGED << doc, text, lifeVars >>

NextParse == ParseMarkdownTable

SpecParse == InitParse /\ [][NextParse]_vars

----------------------------------------------------------------------------
(* What a document holds, read off its blocks (not off the parser).        *)

TablesOf(d) == SelectSeq(d, LAMBDA b : b.kind = "table")
ProseOf(d) == SelectSeq(d, LAMBDA b : b.kind = "prose")

HasChar(line, cs) == \E i \in 1..Len(line) : line[i] \in cs

NonEmptyRow(row) == \E i \in 1..Len(row) : row[i] # Empty

Distinct(h) == \A i, j \in 1..Len(h) : h[i] = h[j] => i = j

\* the separator line of table block b is a well-formed separator row.
WellFormedSep(b) ==
  /\ Len(b.sep) = 1
  /\ b.sep[1] \in {SepLine(c, Len(b.header)) : c \in SepCells}

\* the separator line of b is spelled the compact way: |---|---| or |:--|:--|.
CompactSpelling(b) ==
  /\ Len(b.sep) = 1
  /\ b.sep[1] \in {SepLine(c, Len(b.header)) : c \in SepCellsEndingInDash}

\* no prose line of d holds a pipe.
PipeFreeProse(d) ==
  \A i \in 1..Len(d) :
    d[i].kind = "prose" =>
      \A j \in 1..Len(d[i].lines) : ~HasChar(d[i].lines[j], {PIPE})

\* one table, compactly spelled, around it only prose without pipes.
OneCompactTable(d) ==
  /\ Len(TablesOf(d)) = 1
  /\ CompactSpelling(TablesOf(d)[1])
  /\ PipeFreeProse(d)

\* the record a data row stands for: the i-th name mapped to the i-th cell,
\* as far as both go (a repeated name keeps its last cell).
ExpectedRecord(h, row) ==
  LET n == Min(Len(h), Len(row))
      At(k) == {i \in 1..n : h[i] = k}
  IN [k \in {h[i] : i \in 1..n} |->
        row[CHOOSE i \in At(k) : \A j \in At(k) : j <= i]]

\* the records of one table: its non-empty data rows, in order.
ExpectedRecords(b) ==
  LET kept == SelectSeq(b.rows, NonEmptyRow)
  IN [k \in 1..Len(kept) |-> ExpectedRecord(b.header, kept[k])]

RECURSIVE SumRows(_)
SumRows(ts) == IF ts = << >> THEN 0 ELSE Len(ts[1].rows) + SumRows(Tail(ts))

----------------------------------------------------------------------------
(* Claims about parse_markdown_table, checked under SpecParse.             *)

\* C1: for a text with two or more tables separated by prose, the records
\* returned are the tables' data rows in table order, as many as the tables
\* have data rows, and no header or separator row of a later table is among
\* them.
C1_MultiTableConcat ==
  (ppc = "done" /\ Len(TablesOf(doc)) >= 2 /\ PipeFreeProse(doc)
     /\ \A i \in 1..Len(TablesOf(doc)) : CompactSpelling(TablesOf(doc)[i]))
  => /\ Len(parsed_data) = SumRows(TablesOf(doc))
     /\ parsed_data =
          Flatten([i \in 1..Len(TablesOf(doc)) |-> ExpectedRecords(TablesOf(doc)[i])])

\* C2: a text that is one table with header A|B, a well-formed separator row
\* (any spelling) and the data row x|y parses to the one record {A: x, B: y}.
C2_SingleRowTable ==
  (ppc = "done" /\ Len(doc) = 1 /\ doc[1].kind = "table"
     /\ doc[1].header = << A, B >> /\ doc[1].rows = << << X, Y >> >>
     /\ WellFormedSep(doc[1]))
  => parsed_data = << (A :> X) @@ (B :> Y) >>

\* C3: a text with no separator row holding a dash or a colon parses to no
\* record.
C3_NoSeparatorNoRecords ==
  (ppc = "done"
     /\ \A i \in 1..Len(TablesOf(doc)) :
          LET b == TablesOf(doc)[i]
          IN b.sep = << >> \/ ~HasChar(b.sep[1], {"-", ":"}))
  => parsed_data = << >>

\* C4: prose before or after a table, with or without pipe characters in
\* it, does not change the records: they are those of the table alone, and
\* their column names are names of the table's header.
C4_PositionIndependent ==
  (ppc = "done" /\ Len(TablesOf(doc)) = 1 /\ Len(doc) > 1)
  => LET t == TablesOf(doc)[1]
     IN /\ parsed_data = parse_markdown_table(Render(<< t >>))
        /\ \A k \in 1..Len(parsed_data) :
             DOMAIN parsed_data[k] \subseteq {t.header[i] : i \in 1..Len(t.header)}

\* the i-th header name is mapped to the i-th cell, for every record.
PositionalRecords(b) ==
  LET kept == SelectSeq(b.rows, NonEmptyRow)
  IN /\ Len(parsed_data) = Len(kept)
     /\ \A k \in 1..Len(kept) :
          LET n == Min(Len(b.header), Len(kept[k]))
          IN /\ DOMAIN parsed_data[k] = {b.header[i] : i \in 1..n}
             /\ \A i \in 1..n : parsed_data[k][b.header[i]] = kept[k][i]

\* C5 (as stated): every record of a detected table maps the i-th header
\* name to the i-th cell; names beyond a short row are absent keys, cells
\* beyond the header are dropped.
C5_PositionalZipAnyHeader ==
  (ppc = "done" /\ OneCompactTable(doc)) => PositionalRecords(TablesOf(doc)[1])

\* C5 (amended): the same, for a header whose names are pairwise distinct.
C5_PositionalZip ==
  (ppc = "done" /\ OneCompactTable(doc) /\ Distinct(TablesOf(doc)[1].header))
  => PositionalRecords(TablesOf(doc)[1])

\* a parsed table with distinct names, one row shorter and one row longer
\* than its header.
C5_Witness ==
  /\ ppc = "done" /\ OneCompactTable(doc)
  /\ TablesOf(doc)[1].header = << A, B >>
  /\ TablesOf(doc)[1].rows = << << X >>, << X, Y, X >> >>
  /\ parsed_data = << (A :> X), (A :> X) @@ (B :> Y) >>

\* C6: a data row with only empty cells yields no record and every other
\* data row yields exactly one, so the records are the non-empty data rows
\* in input order.
C6_EmptyRowsDropped ==
  (ppc = "done" /\ OneCompactTable(doc))
  => parsed_data = ExpectedRecords(TablesOf(doc)[1])

\* a parsed table whose first data row is all empty and whose second is not.
C6_Witness ==
  /\ ppc = "done" /\ OneCompactTable(doc)
  /\ TablesOf(doc)[1].header = << A, B >>
  /\ TablesOf(doc)[1].rows = << << Empty, Empty >>, << Empty, X >> >>
  /\ parsed_data = << (A :> Empty) @@ (B :> X) >>

----------------------------------------------------------------------------
(* Inputs of the hook and of the batch tool: checklists, LLM replies and   *)
(* the files of the item_definitions folder.                               *)

DigitChar(i) == << "1", "2", "3", "4", "5", "6", "7", "8", "9" >>[i]

\* the id of the i-th checklist item.
IdOf(i) == << DigitChar(i) >>

\* the i-th checklist item: consecutive items alternate between two
\* categories.
ItemFor(i) ==
  [id |-> IdOf(i),
   category |-> IF i % 2 = 1 THEN "Functional Description" ELSE "Review and Approval",
   requirement |-> << "r", DigitChar(i) >>,
   description |-> << "d", DigitChar(i) >>,
   iso_clause |-> << "c", DigitChar(i) >>]

\* a checklist of n items with distinct ids.
ChecklistFor(n) == [items |-> [i \in 1..n |-> ItemFor(i)]]

\* an LLM reply: a table with one row per entry of ids, the rows alternately
\* Pass and Fail; its Requirement cells are the model's own words.
ReplyDoc(ids, sepcell, pad) ==
  << TableBlock(<< ID, REQUIREMENT, STATUS, COMMENT >>,
                << SepLine(sepcell, 4) >>,
                [k \in 1..Len(ids) |->
                   << IdOf(ids[k]), << "q" >>,
                      IF k % 2 = 1 THEN PASS ELSE FAIL, << "k" >> >>],
                pad) >>

CompactReply(ids) == ReplyDoc(ids, Dashes(MaxDash), FALSE)
SpacedReply(ids) == ReplyDoc(ids, << SP >> \o Dashes(MaxDash) \o << SP >>, TRUE)

\* a reply without any table.
PlainReply == << ProseBlock(<< PlainProse >>) >>

\* a reply without any table whose prose holds a pipe character.
PipedReply == << ProseBlock(<< OnePipeProse >>) >>

\* the orderings of 1..n.
Permutations1(n) == {f \in [1..n -> 1..n] : \A i, j \in 1..n : f[i] = f[j] => i = j}

\* replies to a checklist of n items: a row for every id, in any order and
\* in either spelling; a single row; no table, without and with a pipe.
ReportContents(n) ==
  {CompactReply(f) : f \in Permutations1(n)}
  \cup {SpacedReply(f) : f \in Permutations1(n)}
  \cup {CompactReply(<< i >>) : i \in 1..n}
  \cup {PlainReply, PipedReply}

SmallContents == {CompactReply(<< 1 >>), PlainReply}

\* a file of the item_definitions folder.  Its body is what a reader gets
\* from it piece by piece: the one text of a .txt file, the pages of a .pdf
\* file, the paragraphs of a .docx file.
File(base, ext, body) == [base |-> base, ext |-> ext, body |-> body]

\* a piece that reads as text, and a piece whose reading raises.
Part(t) == [text |-> t, fails |-> FALSE]
BadPart == [text |-> << >>, fails |-> TRUE]

SomeText == << "t" >>
Blank == << SP, NL >>

\* the folders a run starts from: empty; two readable files with the same
\* base name; a readable file and a blank one; the file of the single-file
\* tool and a file of an unsupported format; a PDF whose second page fails
\* and a readable file; a blank file and an unsupported one; an unsupported
\* file alone.
Folders ==
  {{},
   {File("a", ".txt", << Part(SomeText) >>), File("a", ".pdf", << Part(SomeText) >>)},
   {File("a", ".txt", << Part(SomeText) >>), File("b", ".txt", << Part(Blank) >>)},
   {File("item_definition", ".txt", << Part(SomeText) >>),
    File("c", ".md", << Part(SomeText) >>)},
   {File("p", ".pdf", << Part(SomeText), BadPart >>),
    File("a", ".txt", << Part(SomeText) >>)},
   {File("b", ".txt", << Part(Blank) >>), File("c", ".md", << Part(SomeText) >>)},
   {File("c", ".md", << Part(SomeText) >>)}}

\* the orderings of a set of files (os.listdir promises no order).
Orderings(S) ==
  {f \in [1..Cardinality(S) -> S] : \A i, j \in 1..Cardinality(S) : f[i] = f[j] => i = j}

----------------------------------------------------------------------------
(* The export hook.                                                        *)

\* {item["id"]: item for item in checklist_items} raises KeyError when an
\* item has no "id".
MissingId(items) == \E i \in 1..Len(items) : "id" \notin DOMAIN items[i]

\* the exception that leaves the hook before it assembles anything: from
\* load_checklist or from building checklist_map; "none" if neither raises.
HookRaises ==
  IF LoadChecklistRaises(checklist_file) # "none"
  THEN LoadChecklistRaises(checklist_file)
  ELSE IF MissingId(ChecklistItems(checklist)) THEN "KeyError" ELSE "none"

\* before_cat_sends_message(final_output, cat) for a reply that renders the
\* document input.
Hook(input) ==
  LET content == Render(input)
      map == ChecklistMap(ChecklistItems(checklist))
      review_data == parse_markdown_table(content)
      items == HookItems(map, review_data, 1, last_category)
      docx == << Heading(TITLE, 1) >> \o items.elements
      csv == HookCsv(map, review_data)
      timestamp == HookTimestamp(clock)
      stream == ZipStream(<< Member(FileName("item_definition", timestamp, ".docx"), docx),
                             Member(FileName("item_definition", timestamp, ".csv"), csv) >>)
      encoded_zip == B64Encode(ReadAll(Rewind(Buffer(stream), 0)))
      zip_name == FileName("item_definition", timestamp, ".zip")
  IN /\ bpc = "idle"
     /\ calls < MaxCalls
     /\ calls' = calls + 1
     /\ IF HasChar(content, {PIPE})
        THEN IF HookRaises # "none"
             THEN /\ escaped' = HookRaises
                  /\ report' = [NoReport EXCEPT !.input = input]
                  /\ UNCHANGED << exports, writes, last_category, final_output >>
             ELSE /\ escaped' = "none"
                  /\ exports' = WriteFile(exports, zip_name, B64Decode(encoded_zip))
                  /\ writes' = writes + 1
                  /\ last_category' = items.latch
                  /\ final_output' =
                       [content |-> ExportedMessage,
                        file |-> [name |-> zip_name, content |-> encoded_zip, type |-> "zip"]]
                  /\ report' = [by |-> "hook", input |-> input, review_data |-> review_data,
                                docx |-> docx, csv |-> csv, zip |-> zip_name]
        ELSE /\ escaped' = "none"
             /\ final_output' = [content |-> content, file |-> NoFile]
             /\ report' = [NoReport EXCEPT !.input = input]
             /\ UNCHANGED << exports, writes, last_category >>
     /\ UNCHANGED << parseVars, envVars, clock, batchVars, llm_calls, review_result,
                     extracted >>

----------------------------------------------------------------------------
(* The single-file review tool.                                            *)

\* load_item_definition(plugin_folder) finds item_definitions/item_definition.txt.
HasItemDefinition ==
  \E f \in folder : f.base = "item_definition" /\ f.ext = ".txt"

\* review_item_definition(tool_input, cat): nothing in it catches an
\* exception.  llm is the outcome of cat.llm.
ReviewItemDefinition(llm) ==
  /\ bpc = "idle"
  /\ calls < MaxCalls
  /\ calls' = calls + 1
  /\ IF LoadChecklistRaises(checklist_file) # "none"
     THEN /\ escaped' = LoadChecklistRaises(checklist_file)
          /\ review_result' = NoResponse
          /\ UNCHANGED llm_calls
     ELSE IF ~HasItemDefinition
     THEN /\ escaped' = "FileNotFoundError"
          /\ review_result' = NoResponse
          /\ UNCHANGED llm_calls
     ELSE /\ llm_calls' = llm_calls + 1
          /\ IF llm.raises
             THEN /\ escaped' = "LlmError"
                  /\ review_result' = NoResponse
             ELSE /\ escaped' = "none"
                  /\ review_result' = [kind |-> "response", content |-> Render(llm.reply)]
  /\ UNCHANGED << parseVars, envVars, clock, exports, writes, hookVars, report,
                  batchVars, extracted >>

----------------------------------------------------------------------------
(* The batch review tool.                                                  *)

SupportedExtensions == {".pdf", ".docx", ".txt"}

\* the text of the pieces, a newline after each (content += text + "\n").
RECURSIVE PiecesText(_)
PiecesText(body) ==
  IF body = << >> THEN << >>
  ELSE body[1].text \o << NL >> \o PiecesText(Tail(body))

\* some piece of the body raises when it is read.
ReadFails(body) == \E i \in 1..Len(body) : body[i].fails

\* extract_file_content(file_path, file_extension): the whole function body
\* is one try block whose handler returns "".
ExtractFileContent(file) ==
  IF file.ext \notin SupportedExtensions THEN << >>
  ELSE IF ReadFails(file.body) THEN << >>
  ELSE IF file.ext = ".txt" THEN file.body[1].text
  ELSE PiecesText(file.body)

\* "except FileNotFoundError" around load_checklist in the batch tool.
BatchCatches(exc) == exc = "FileNotFoundError"

\* review_item_definitions_batch up to its file loop: the folder is listed
\* in the order files and filtered by extension, the checklist is loaded.
BatchStart(files) ==
  LET supported == SelectSeq(files, LAMBDA f : f.ext \in SupportedExtensions)
      exc == LoadChecklistRaises(checklist_file)
  IN /\ bpc = "idle"
     /\ calls < MaxCalls
     /\ calls' = calls + 1
     /\ IF supported = << >>
        THEN /\ batch_result' = ToolReturn("no supported files", << >>)
             /\ escaped' = "none"
             /\ UNCHANGED << bpc, files_to_process, idx, processed_files, zip_files_created,
                             loop_errors >>
        ELSE IF exc # "none"
        THEN /\ IF BatchCatches(exc)
                THEN /\ batch_result' = ErrorReturn("checklist error", MessageOf(exc))
                     /\ escaped' = "none"
                ELSE /\ batch_result' = ToolReturn("none", << >>)
                     /\ escaped' = exc
             /\ UNCHANGED << bpc, files_to_process, idx, processed_files, zip_files_created,
                             loop_errors >>
        ELSE /\ bpc' = "loop"
             /\ files_to_process' = supported
             /\ idx' = 1
             /\ processed_files' = << >>
             /\ zip_files_created' = << >>
             /\ loop_errors' = << >>
             /\ batch_result' = ToolReturn("running", << >>)
             /\ escaped' = "none"
     /\ UNCHANGED << parseVars, envVars, clock, exports, writes, hookVars, report,
                     batch_processing, llm_calls, review_result, extracted >>

\* what create_review_package returns when it returns None.
NoPackage == [ok |-> FALSE, zip_path |-> NoName, stream |-> << >>, report |-> NoReport]

\* create_review_package(original_filename, review_result, ...): what it
\* assembles and where it writes it; t1 and t2 are the readings of
\* datetime.now() and time.time().  It returns None when no row was parsed
\* and when an exception is raised inside it.
Package(file, reply, t1, t2) ==
  LET review_data == parse_markdown_table(Render(reply))
      timestamp == PackageTimestamp(t1, t2)
      map == ChecklistMap(ChecklistItems(checklist))
      docx == << Heading(TITLE, 1), Heading("File: " \o file.base \o file.ext, 2) >>
              \o PackageItems(map, review_data, 1, TRUE, "")
      csv == PackageCsv(map, review_data)
      zip_path == FileName(file.base, timestamp, ".zip")
      stream == ZipStream(<< Member(FileName(file.base, timestamp, ".docx"), docx),
                             Member(FileName(file.base, timestamp, ".csv"), csv) >>)
  IN IF review_data = << >> \/ MissingId(ChecklistItems(checklist))
     THEN [NoPackage EXCEPT !.report.input = reply]
     ELSE [ok |-> TRUE, zip_path |-> zip_path, stream |-> stream,
           report |-> [by |-> "package", input |-> reply, review_data |-> review_data,
                       docx |-> docx, csv |-> csv, zip |-> zip_path]]

\* a mutated handler that catches nothing.
LoopCatchesNothing(exc) == FALSE

\* "except Exception as e: ... continue" of the file loop.
LoopCatches(exc) == exc # "none"

\* one turn of the loop "for filename, file_path, ext in files_to_process".
\* llm is the outcome of cat.llm: it raises, or it returns llm.reply.  The
\* two clock readings of create_review_package are taken one right after the
\* other and return the same reading.
BatchFile(llm) ==
  LET file == files_to_process[idx]
      content == ExtractFileContent(file)
      pkg == Package(file, llm.reply, clock, clock)
  IN /\ bpc = "loop"
     /\ idx <= Len(files_to_process)
     /\ idx' = idx + 1
     /\ extracted' = [file |-> file, content |-> content]
     /\ IF Strip(content) = << >>
        THEN /\ report' = NoReport
             /\ UNCHANGED << clock, exports, writes, processed_files, zip_files_created,
                             batch_processing, llm_calls, bpc, escaped, loop_errors >>
        ELSE IF llm.raises
        THEN /\ batch_processing' = [set |-> TRUE, value |-> TRUE]
             /\ llm_calls' = llm_calls + 1
             /\ report' = NoReport
             /\ IF LoopCatches("LlmError")
                THEN /\ loop_errors' = Append(loop_errors, << file, "LlmError" >>)
                     /\ UNCHANGED << bpc, escaped >>
                ELSE /\ bpc' = "idle"
                     /\ escaped' = "LlmError"
                     /\ UNCHANGED loop_errors
             /\ UNCHANGED << clock, exports, writes, processed_files, zip_files_created >>
        ELSE IF ~pkg.ok
        THEN /\ batch_processing' = [set |-> TRUE, value |-> FALSE]
             /\ llm_calls' = llm_calls + 1
             /\ report' = pkg.report
             /\ UNCHANGED << clock, exports, writes, processed_files, zip_files_created,
                             bpc, escaped, loop_errors >>
        ELSE /\ batch_processing' = [set |-> TRUE, value |-> FALSE]
             /\ llm_calls' = llm_calls + 1
             /\ exports' = WriteFile(exports, pkg.zip_path, pkg.stream)
             /\ writes' = writes + 1
             /\ processed_files' = Append(processed_files, file)
             /\ zip_files_created' = Append(zip_files_created, pkg.zip_path)
             /\ report' = pkg.report
             /\ UNCHANGED << clock, bpc, escaped, loop_errors >>
     /\ UNCHANGED << parseVars, envVars, hookVars, calls, files_to_process,
                     batch_result, review_result >>

\* the summary after the loop.
BatchFinish ==
  /\ bpc = "loop"
  /\ idx > Len(files_to_process)
  /\ bpc' = "idle"
  /\ batch_result' =
       IF processed_files # << >>
       THEN ToolReturn("summary",
                       [i \in 1..Len(processed_files) |->
                          << processed_files[i], zip_files_created[i] >>])
       ELSE ToolReturn("no files processed", << >>)
  /\ UNCHANGED << parseVars, envVars, clock, exports, writes, hookVars, report, calls,
                  files_to_process, idx, processed_files, zip_files_created,
                  batch_processing, loop_errors, toolVars >>

\* time passes between two steps: d milliseconds.
Tick(d) ==
  /\ InClockRange(clock + d)
  /\ clock' = clock + d
  /\ UNCHANGED << parseVars, envVars, exports, writes, hookVars, report, calls, batchVars,
                  toolVars >>

----------------------------------------------------------------------------
(* Spec: hook invocations, single-file reviews and batch runs in any       *)
(* order, with the clock.                                                  *)

Init ==
  /\ ParseIdle
  /\ checklist = ChecklistFor(1)
  /\ checklist_file \in {"ok", "missing", "corrupt"}
  /\ folder \in Folders
  /\ LifeStart

\* what a call of cat.llm can do: return one of replies, or raise.
LlmOutcomes(replies) ==
  {[raises |-> FALSE, reply |-> r] : r \in replies}
  \cup {[raises |-> TRUE, reply |-> << >>]}

HookStep == \E c \in SmallContents : Hook(c)
ReviewStep == \E llm \in LlmOutcomes(SmallContents) : ReviewItemDefinition(llm)
BatchStartStep == \E files \in Orderings(folder) : BatchStart(files)
BatchFileStep == \E llm \in LlmOutcomes(SmallContents) : BatchFile(llm)
TickStep == Tick(MsPerSecond)

Next ==
  HookStep \/ ReviewStep \/ BatchStartStep \/ BatchFileStep \/ BatchFinish \/ TickStep

Spec == Init /\ [][Next]_vars

----------------------------------------------------------------------------
(* SpecReport: one reviewed file, checklists of up to MaxItems items and   *)
(* replies with a row for every id, in either spelling of the separator.   *)

ReportFolder == {File("a", ".txt", << Part(SomeText) >>)}

InitReport ==
  /\ ParseIdle
  /\ checklist \in {ChecklistFor(n) : n \in 1..MaxItems}
  /\ checklist_file = "ok"
  /\ folder = ReportFolder
  /\ LifeStart

HookReport == \E c \in ReportContents(Len(checklist.items)) : Hook(c)
BatchFileReport ==
  \E llm \in LlmOutcomes(ReportContents(Len(checklist.items))) : BatchFile(llm)

NextReport == HookReport \/ BatchStartStep \/ BatchFileReport \/ BatchFinish

SpecReport == InitReport /\ [][NextReport]_vars

----------------------------------------------------------------------------
(* Claims about the assembled reports, checked under SpecReport.           *)

\* the replies with one Pass/Fail row for each of the n ids.
FullReplies(n) ==
  {CompactReply(f) : f \in Permutations1(n)} \cup {SpacedReply(f) : f \in Permutations1(n)}

\* C7: for a checklist of N items with distinct ids and a reply whose table
\* has one Pass/Fail row for each of the N ids, the CSV assembled by the hook
\* and by create_review_package has N+1 rows, the header first, one data row
\* per id, and in every data row Requirement and Clause are those of the
\* checklist item with the row's ID.
C7_CsvRoundTrip ==
  LET items == checklist.items
      n == Len(items)
      csv == report.csv
  IN report.input \in FullReplies(n)
     => /\ Len(csv) = n + 1
        /\ csv[1] = CsvHeader
        /\ {csv[r][1] : r \in 2..(n + 1)} = {items[i].id : i \in 1..n}
        /\ \A r \in 2..(n + 1) :
             \E i \in 1..n : /\ items[i].id = csv[r][1]
                             /\ csv[r][2] = items[i].requirement
                             /\ csv[r][4] = items[i].iso_clause

\* the places of the item tables in a document.
TablePositions(docx) ==
  SelectSeq([i \in 1..Len(docx) |-> i], LAMBDA i : docx[i].kind = "table")

\* the table at place p comes right after the heading of category (with at
\* most the section explanation between them).
HeadingBefore(docx, p, category, level) ==
  \E q \in 1..(p - 1) :
     /\ docx[q] = Heading(category, level)
     /\ \A r \in (q + 1)..(p - 1) : docx[r] = Paragraph("explanation")

\* C8: in every report, of the hook and of create_review_package, whatever
\* was invoked before, an item's table is preceded by a category heading
\* exactly when the item is the first row of the report or its category
\* differs from that of the preceding row of the same report.
C8_HeadingOnChange ==
  report.by \in {"hook", "package"}
  => LET map == ChecklistMap(ChecklistItems(checklist))
         rows == report.review_data
         pos == TablePositions(report.docx)
         level == IF report.by = "hook" THEN 2 ELSE 3
     IN /\ Len(pos) = Len(rows)
        /\ \A k \in 1..Len(rows) :
             HeadingBefore(report.docx, pos[k], CategoryOf(map, rows[k]), level)
             <=> (k = 1 \/ CategoryOf(map, rows[k]) # CategoryOf(map, rows[k - 1]))

----------------------------------------------------------------------------
(* Claims about the exports directory and the ZIP, checked under Spec.     *)

\* C9: every packaging step, of a hook invocation or of a batch run, writes
\* its ZIP under a name no earlier step used: a step that writes a ZIP adds
\* a name to the exports directory.
C9_AppendOnly ==
  [][writes' # writes => DOMAIN exports' # DOMAIN exports]_vars

\* a ZIP byte stream with exactly two members, a .docx and a .csv, named
\* with the base name and the timestamp of the ZIP file zip.
TwoEntries(stream, zip) ==
  LET m == MembersOf(stream)
  IN /\ Len(m) = 2
     /\ stream[Len(stream)] = EndRecord(2)
     /\ {m[1].name.ext, m[2].name.ext} = {".docx", ".csv"}
     /\ \A i \in 1..2 : m[i].name.base = zip.base /\ m[i].name.stamp = zip.stamp
     /\ zip.ext = ".zip"

\* the report assembled last is in the exports directory, as a ZIP of two
\* entries.
ReportExported ==
  report.by \in {"hook", "package"}
  => /\ report.zip \in DOMAIN exports
     /\ TwoEntries(exports[report.zip], report.zip)

\* the file the hook attached decodes to the bytes on disk under its name.
HookInline ==
  final_output.file.type = "zip"
  => /\ final_output.file.name \in DOMAIN exports
     /\ B64Decode(final_output.file.content) = exports[final_output.file.name]
     /\ TwoEntries(exports[final_output.file.name], final_output.file.name)

\* every ZIP the batch run has created is in the exports directory, as a ZIP
\* of two entries.
BatchOnDisk ==
  \A i \in 1..Len(zip_files_created) :
     /\ zip_files_created[i] \in DOMAIN exports
     /\ TwoEntries(exports[zip_files_created[i]], zip_files_created[i])

\* C10 (as stated): every review that produces output produces one ZIP of
\* two entries, a .docx and a .csv with the timestamp of the ZIP name, the
\* ZIP is written under exports and it is returned inline as base64 that
\* decodes to the bytes on disk, by the hook and for each file packaged by
\* the batch tool.
C10_InlineAndOnDisk ==
  /\ ReportExported
  /\ HookInline
  /\ BatchOnDisk
  /\ batch_result.kind = "summary"
     => \A i \in 1..Len(batch_result.pairs) :
           /\ batch_result.file.type = "zip"
           /\ B64Decode(batch_result.file.content) = exports[batch_result.pairs[i][2]]

\* C10 (amended): every review that produces output produces one ZIP of two
\* entries, a .docx and a .csv with the timestamp of the ZIP name, written
\* under exports; the hook also returns it inline as base64 that decodes to
\* the bytes on disk, the batch tool returns a summary that names the ZIP of
\* each packaged file and attaches nothing.
C10_ZipOnDisk ==
  /\ ReportExported
  /\ HookInline
  /\ BatchOnDisk
  /\ batch_result.kind = "summary"
     => /\ batch_result.file = NoFile
        /\ \A i \in 1..Len(batch_result.pairs) :
              /\ batch_result.pairs[i][2] = zip_files_created[i]
              /\ batch_result.pairs[i][2] \in DOMAIN exports

\* the hook has attached a ZIP and a batch run has returned a summary that
\* names a ZIP; both are in the exports directory.
C10_Witness ==
  /\ final_output.file.type = "zip"
  /\ final_output.file.name \in DOMAIN exports
  /\ batch_result.kind = "summary"
  /\ Len(batch_result.pairs) >= 1
  /\ batch_result.pairs[1][2] \in DOMAIN exports
  /\ MembersOf(exports[batch_result.pairs[1][2]]) # << >>

----------------------------------------------------------------------------
(* SpecChecklist: checklists with unknown ids, items that lack a key and   *)
(* items that share an id, and replies whose rows name ids 1, 2 and 3.     *)

ItemKeys == {"id", "category", "requirement", "description", "iso_clause"}

\* the item without one of its keys.
Without(item, key) == [k \in DOMAIN item \ {key} |-> item[k]]

\* two items: the first lacks key.
ChecklistWithout(key) == [items |-> << Without(ItemFor(1), key), ItemFor(2) >>]

\* two items with the id of the first; they differ in every other key.
ChecklistDuplicate == [items |-> << ItemFor(1), [ItemFor(2) EXCEPT !.id = IdOf(1)] >>]

\* the same with a third item, of another id, after them.
ChecklistDuplicateThen ==
  [items |-> ChecklistDuplicate.items \o << ItemFor(2) >>]

Checklists ==
  {ChecklistFor(1), ChecklistFor(2), ChecklistDuplicate, ChecklistDuplicateThen}
  \cup {ChecklistWithout(key) : key \in ItemKeys}

\* id 3 is in none of Checklists.
ChecklistContents == {CompactReply(<< 1, 2 >>), CompactReply(<< 3, 1 >>), PlainReply}

InitChecklist ==
  /\ ParseIdle
  /\ checklist \in Checklists
  /\ checklist_file = "ok"
  /\ folder = ReportFolder
  /\ LifeStart

HookChecklist == \E c \in ChecklistContents : Hook(c)
BatchFileChecklist == \E llm \in LlmOutcomes(ChecklistContents) : BatchFile(llm)

NextChecklist == HookChecklist \/ BatchStartStep \/ BatchFileChecklist \/ BatchFinish

SpecChecklist == InitChecklist /\ [][NextChecklist]_vars

----------------------------------------------------------------------------
(* Claims about the join of rows and checklist items, checked under        *)
(* SpecChecklist.                                                          *)

\* the ids of the checklist's items (of those that have one).
ChecklistIds ==
  {checklist.items[i]["id"] :
     i \in {j \in 1..Len(checklist.items) : "id" \in DOMAIN checklist.items[j]}}

\* the rows of the report assembled last whose ID is no checklist item's.
UnmatchedRows ==
  {k \in 1..Len(report.review_data) : Get(report.review_data[k], ID, Empty) \notin ChecklistIds}

\* the cells of the table of row k in the document of the report.
RowTable(k) == report.docx[TablePositions(report.docx)[k]].cells

\* the places of the category headings that come before place p.
HeadingsBefore(docx, p, level) ==
  {q \in 1..(p - 1) : docx[q].kind = "heading" /\ docx[q].level = level}

\* the category heading in force at the table of row k, if there is one, is
\* "Uncategorized".
UnderUncategorized(k) ==
  LET docx == report.docx
      p == TablePositions(docx)[k]
      hs == HeadingsBefore(docx, p, IF report.by = "hook" THEN 2 ELSE 3)
  IN /\ report.by = "package" => hs # {}
     /\ hs # {} => docx[CHOOSE q \in hs : \A r \in hs : r <= q].text = "Uncategorized"

\* C11 (as stated): a row whose ID matches no checklist item is reported
\* under category Uncategorized with empty requirement and empty description,
\* in the Word document and in the CSV, by the hook and by
\* create_review_package, and assembly does not fail.
C11_UnmatchedRowEmptyFields ==
  report.by \in {"hook", "package"}
  => /\ escaped = "none"
     /\ \A k \in UnmatchedRows :
          /\ UnderUncategorized(k)
          /\ RowTable(k)[1][2] = Empty
          /\ RowTable(k)[2][2] = Empty
          /\ report.csv[k + 1][2] = Empty
          /\ report.csv[k + 1][3] = Empty

\* C11 (amended): such a row is reported under category Uncategorized; in
\* the Word document its requirement is empty and its description and ISO
\* clause are "N/A"; in the CSV its description and clause are "N/A" and its
\* requirement is the row's own Requirement cell (hook) or empty
\* (create_review_package); assembly does not fail.
C11_UnmatchedRowDefaults ==
  report.by \in {"hook", "package"}
  => /\ escaped = "none"
     /\ \A k \in UnmatchedRows :
          /\ UnderUncategorized(k)
          /\ RowTable(k)[1][2] = Empty
          /\ RowTable(k)[2][2] = NA
          /\ RowTable(k)[3][2] = NA
          /\ report.csv[k + 1][2] =
               (IF report.by = "hook"
                THEN Get(report.review_data[k], REQUIREMENT, Empty) ELSE Empty)
          /\ report.csv[k + 1][3] = NA
          /\ report.csv[k + 1][4] = NA

\* create_review_package has reported a row of unknown id 3 before a row of
\* a known id.
C11_Witness ==
  /\ report.by = "package"
  /\ report.input = CompactReply(<< 3, 1 >>)
  /\ UnmatchedRows = {1}
  /\ report.csv[2][1] = IdOf(3)
  /\ report.csv[2][3] = NA

----------------------------------------------------------------------------
(* Claims about the batch tool and the entry points' failures, checked     *)
(* under Spec.                                                             *)

\* C12: in the batch loop a failure on one file (extraction, LLM call or
\* packaging) is caught: every turn of the loop goes on to the next file of
\* the list, the loop is left only after the last file, and then the tool
\* returns a summary string and no exception leaves it.
C12_FailureIsolated ==
  [][bpc = "loop"
     => /\ idx' # idx
           => /\ idx' = idx + 1
              /\ extracted'.file = files_to_process[idx]
              /\ bpc' = "loop"
        /\ bpc' # "loop"
           => /\ idx > Len(files_to_process)
              /\ batch_result'.kind \in {"summary", "no files processed"}
              /\ escaped' = "none"]_vars

\* the LLM call for the first of two files has raised and the loop stands
\* at the second file.
C12_Witness ==
  /\ bpc = "loop"
  /\ Len(files_to_process) = 2
  /\ idx = 2
  /\ llm_calls >= 1
  /\ batch_processing = [set |-> TRUE, value |-> TRUE]
  /\ escaped = "none"

\* the files the returned string names: those of its lines
\* "filename -> zip name"; it has no other line that names a file.
NamedIn(result) == {result.pairs[i][1] : i \in 1..Len(result.pairs)}

\* C13: the string the batch tool returns after its loop names every file
\* found for processing exactly once, the succeeded ones each with the ZIP
\* created for that file, the blank, failed and table-less ones as skipped.
C13_EveryFileNamed ==
  (bpc = "idle" /\ batch_result.kind \in {"summary", "no files processed"})
  => /\ \A i \in 1..Len(files_to_process) : files_to_process[i] \in NamedIn(batch_result)
     /\ \A i, j \in 1..Len(batch_result.pairs) :
          batch_result.pairs[i][1] = batch_result.pairs[j][1] => i = j
     /\ \A i \in 1..Len(batch_result.pairs) :
          batch_result.pairs[i][2].base = batch_result.pairs[i][1].base

\* C14: when the checklist file is missing or holds invalid JSON, no
\* exception leaves an entry point that loads it, the LLM is never called, no
\* export is written, and the entry point returns a message that explains
\* the failure (for the batch tool: its checklist error string).
C14_ChecklistFailureReported ==
  checklist_file # "ok"
  => /\ escaped = "none"
     /\ llm_calls = 0
     /\ writes = 0 /\ exports = << >>
     /\ batch_result.kind \notin {"none", "no supported files"}
        => batch_result.kind = "checklist error" /\ batch_result.detail # ""

\* C15: when the LLM call raises, what the operation gives the user holds
\* the failure's message: no exception leaves review_item_definition, and
\* the string the batch tool returns holds the message of every LLM failure
\* of the run, the failed file being skipped.
C15_LlmFailureReported ==
  /\ escaped # "LlmError"
  /\ (bpc = "idle" /\ batch_result.kind \in {"summary", "no files processed"})
     => \A i \in 1..Len(loop_errors) :
          /\ loop_errors[i][1] \notin NamedIn(batch_result)
          /\ batch_result.detail = MessageOf(loop_errors[i][2])

\* the folder holds no file from which non-blank content is extracted.
NoContent == \A f \in folder : Strip(ExtractFileContent(f)) = << >>

\* a step of review_item_definitions_batch.
BatchToolStep == BatchStartStep \/ BatchFileStep \/ BatchFinish

\* C17: extract_file_content gives the empty string for every file whose
\* extension is none of .txt, .pdf, .docx; and when no file of the folder
\* yields non-blank content, no step of the batch tool raises or calls the
\* LLM, and the tool returns with one of its two "nothing found / nothing
\* processed" messages.
C17_NothingProcessed ==
  [][/\ \A f \in folder : f.ext \notin SupportedExtensions => ExtractFileContent(f) = << >>
     /\ (NoContent /\ BatchToolStep)
        => /\ escaped' = "none"
           /\ llm_calls' = llm_calls
           /\ bpc' = "idle"
              => batch_result'.kind \in {"no supported files", "no files processed"}]_vars

\* the pages of a document whose text extraction succeeds, in page order.
GoodPages(body) == SelectSeq(body, LAMBDA p : ~p.fails)

\* C18: what extract_file_content returns for a PDF is the text of exactly
\* the pages whose extraction succeeds, in page order, a newline after each:
\* a failing page takes away its own text only.
C18_FailingPageSkipped ==
  extracted.file.ext = ".pdf"
  => extracted.content = PiecesText(GoodPages(extracted.file.body))

\* C16 (under SpecReport): a message from whose content no row is parsed,
\* with or without a pipe character in it, leaves the hook with its content
\* unchanged and no file attached, and nothing is written to exports.
C16_TransformOnlyWithRows ==
  [][\A c \in ReportContents(Len(checklist.items)) :
       (Hook(c) /\ parse_markdown_table(Render(c)) = << >>)
       => /\ final_output'.content = Render(c)
          /\ final_output'.file = NoFile
          /\ exports' = exports
          /\ writes' = writes]_vars

\* C19 (under SpecChecklist): whatever key an item of the checklist lacks,
\* a reply from which rows are parsed gets its report, from the hook and
\* from create_review_package, and no exception leaves the hook.
C19_MissingKeyTolerated ==
  /\ escaped = "none"
  /\ parse_markdown_table(Render(report.input)) # << >> => report.by # "none"

\* the places in the checklist's items list of the items with this id.
PlacesOf(id) ==
  {j \in 1..Len(checklist.items) :
     "id" \in DOMAIN checklist.items[j] /\ checklist.items[j]["id"] = id}

\* the rows of the report assembled last whose ID several items share.
DuplicateRows ==
  {k \in 1..Len(report.review_data) :
     Cardinality(PlacesOf(Get(report.review_data[k], ID, Empty))) >= 2}

\* the item that appears last in the items list among those with row k's ID.
LastItemOf(k) ==
  LET places == PlacesOf(Get(report.review_data[k], ID, Empty))
  IN checklist.items[CHOOSE j \in places : \A i \in places : i <= j]

\* the category heading in force at the table of row k, if there is one, is
\* category.
UnderCategory(k, category) ==
  LET docx == report.docx
      p == TablePositions(docx)[k]
      hs == HeadingsBefore(docx, p, IF report.by = "hook" THEN 2 ELSE 3)
  IN hs # {} => docx[CHOOSE q \in hs : \A r \in hs : r <= q].text = category

\* C20 (under SpecChecklist): when several checklist items share an id, the
\* fields of a report row with that ID (category, requirement, description,
\* ISO clause, in the document and in the CSV) are those of the item that
\* appears last in the items list, in the hook's report and in
\* create_review_package's.
C20_LastDuplicateWins ==
  report.by \in {"hook", "package"}
  => \A k \in DuplicateRows :
       /\ UnderCategory(k, LastItemOf(k).category)
       /\ RowTable(k)[1][2] = LastItemOf(k).requirement
       /\ RowTable(k)[2][2] = LastItemOf(k).description
       /\ RowTable(k)[3][2] = LastItemOf(k).iso_clause
       /\ report.csv[k + 1][2] = LastItemOf(k).requirement
       /\ report.csv[k + 1][3] = LastItemOf(k).description
       /\ report.csv[k + 1][4] = LastItemOf(k).iso_clause

\* the hook has reported a row of id 1 with the checklist whose two items
\* both have id 1, and the row's requirement is the second item's.
C20_Witness ==
  /\ report.by = "hook"
  /\ checklist = ChecklistDuplicate
  /\ DuplicateRows = {1}
  /\ report.csv[2][2] = ItemFor(2).requirement

\* C21 (under Spec): cat._batch_processing is True only during an LLM call
\* of the batch tool: it is not True when the tool has returned (or was left
\* by an exception) nor at the start of a file's turn of the loop, whatever
\* the LLM calls did.  The call itself lies inside one step of the loop.
C21_FlagOnlyDuringCall ==
  (bpc = "idle" \/ (bpc = "loop" /\ idx <= Len(files_to_process) + 1))
  => ~(batch_processing.set /\ batch_processing.value)

====
